---- MODULE Spec2Model ----
(***************************************************************************)
(* Model of mobsf/StaticAnalyzer/views/shared_func.py: the scoring loop,   *)
(* URL/email extraction, the compare gate, the PDF report dispatcher and   *)
(* the Firebase probe.  Every operation is a synchronous call; `op` names  *)
(* the call whose inputs and results the other variables currently hold.   *)
(***************************************************************************)
EXTENDS Integers, Sequences, FiniteSets, Bags, TLC

VARIABLES
    op,            \* the function called last ("idle" between calls)
    calls,         \* external collaborators invoked by the call, in order
    hash1, hash2,  \* compare_apps arguments
    compare_ret,   \* compare_apps return value
    n_findings,    \* score: number of findings.values() iterated so far
    finding,       \* score: the loop variable
    cvss_scores,   \* score: the accumulated non-zero cvss values
    app_score,     \* score: the running application score
    score_ret,     \* score: outcome (returned tuple or raised exception)
    lacking,       \* score: keys that some finding iterated so far lacks
    swapped,       \* whether the companion call's mapping already differs
    alt_app_score, \* app_score of the companion call of score
    alt_ret,       \* outcome of the companion call of score
    dat,           \* url_n_email_extract: the text scanned
    relative_path, \* url_n_email_extract: the path of the scanned file
    extract_ret,   \* url_n_email_extract return value
    url,           \* open_firebase argument
    urls,          \* firebase_analysis argument
    responses,     \* what the proxy lookup and the network answer, per probe
    firebase_ret,  \* open_firebase / firebase_analysis outcome
    request,       \* pdf: the request and the api / jsonres flags
    env,           \* pdf: record stores, settings and failing collaborator
    pdf_ret        \* pdf outcome

compareVars == <<hash1, hash2, compare_ret>>
scoreVars == <<n_findings, finding, cvss_scores, app_score, score_ret,
               lacking, swapped, alt_app_score, alt_ret>>
extractVars == <<dat, relative_path, extract_ret>>
firebaseVars == <<url, urls, responses, firebase_ret>>
pdfVars == <<request, env, pdf_ret>>
vars == <<op, calls, compareVars, scoreVars, extractVars, firebaseVars,
          pdfVars>>

None == [kind |-> "none"]

\* F applied to the value of e: a local variable assigned once and read
\* several times.
Let(e, F(_)) == CHOOSE y \in { F(x) : x \in {e} } : TRUE

\* An entry of the log of external calls.
Call(fn, arg) == [fn |-> fn, arg |-> arg]

(***************************************************************************)
(* Strings are sequences of characters.                                    *)
(***************************************************************************)
HexLower == {"0", "1", "2", "3", "4", "5", "6", "7", "8", "9",
             "a", "b", "c", "d", "e", "f"}

NL == "\n"

HashLen == 32

Rep(c, n) == [i \in 1..n |-> c]

SetAt(s, i, c) == [s EXCEPT ![i] = c]

\* Scan hashes a request can carry.
Hashes ==
    { Rep("a", HashLen), Rep("0", HashLen),
      SetAt(Rep("a", HashLen), HashLen, "9"),
      Rep("a", HashLen - 1), Rep("a", HashLen + 1),
      SetAt(Rep("a", HashLen), 1, "A"),
      SetAt(Rep("a", HashLen), HashLen, "g"),
      Rep("a", HashLen) \o <<NL>>,
      Rep("a", HashLen - 1) \o <<NL>>,
      Rep("a", HashLen) \o <<NL, NL>>,
      <<>> }

\* re.match('^[0-9a-f]{32}$', checksum): `$` matches at the end of the
\* string and also just before a newline that ends the string.
re_match_hash(checksum) ==
    /\ Len(checksum) >= HashLen
    /\ \A i \in 1..HashLen : checksum[i] \in HexLower
    /\ \/ Len(checksum) = HashLen
       \/ Len(checksum) = HashLen + 1 /\ checksum[HashLen + 1] = NL

\* mobsf.MobSF.utils.is_md5: the hex-hash format check.
is_md5(user_input) ==
    /\ Len(user_input) = HashLen
    /\ \A i \in 1..HashLen : user_input[i] \in HexLower

\* mobsf.MobSF.utils.print_n_send_error_response
print_n_send_error_response(msg, api) ==
    [kind |-> "error", msg |-> msg, api |-> api]

(***************************************************************************)
(* compare_apps                                                            *)
(***************************************************************************)
\* As compare_apps, with the format check ahead of the same-hash check.
compare_apps_format_first(h1, h2, api) ==
    IF ~ is_md5(h1)
    THEN [ret   |-> print_n_send_error_response("Invalid hashes", api),
          calls |-> <<Call("is_md5", h1),
                      Call("print_n_send_error_response", <<>>)>>]
    ELSE IF ~ is_md5(h2)
    THEN [ret   |-> print_n_send_error_response("Invalid hashes", api),
          calls |-> <<Call("is_md5", h1), Call("is_md5", h2),
                      Call("print_n_send_error_response", <<>>)>>]
    ELSE IF h1 = h2
    THEN [ret   |-> print_n_send_error_response(
                        "Results with same hash cannot be compared", api),
          calls |-> <<Call("is_md5", h1), Call("is_md5", h2),
                      Call("print_n_send_error_response", <<>>)>>]
    ELSE [ret   |-> [kind |-> "compared", api |-> api],
          calls |-> <<Call("is_md5", h1), Call("is_md5", h2),
                      Call("generic_compare", <<h1, h2>>)>>]

compare_apps(h1, h2, api) ==
    IF h1 = h2
    THEN [ret   |-> print_n_send_error_response(
                        "Results with same hash cannot be compared", api),
          calls |-> <<Call("print_n_send_error_response", <<>>)>>]
    ELSE IF ~ is_md5(h1)
    THEN [ret   |-> print_n_send_error_response("Invalid hashes", api),
          calls |-> <<Call("is_md5", h1),
                      Call("print_n_send_error_response", <<>>)>>]
    ELSE IF ~ is_md5(h2)
    THEN [ret   |-> print_n_send_error_response("Invalid hashes", api),
          calls |-> <<Call("is_md5", h1), Call("is_md5", h2),
                      Call("print_n_send_error_response", <<>>)>>]
    ELSE [ret   |-> [kind |-> "compared", api |-> api],
          calls |-> <<Call("is_md5", h1), Call("is_md5", h2),
                      Call("generic_compare", <<h1, h2>>)>>]

(***************************************************************************)
(* score                                                                   *)
(* A finding is a dict: a function whose domain is the set of its keys.    *)
(* cvss values are counted in tenths (75 is 7.5); the values used are      *)
(* exact binary fractions, so float sums and means carry no rounding.      *)
(***************************************************************************)
MaxFindings == 8

Has(d, k) == k \in DOMAIN d

NoFinding == [kind |-> "none"]

Findings ==
    { [severity |-> "high", cvss |-> 75],
      [severity |-> "warning", cvss |-> 25],
      [severity |-> "good", cvss |-> 0],
      [severity |-> "info"],
      [cvss |-> 75],
      [metadata |-> [severity |-> "high", cvss |-> 25]],
      [metadata |-> <<>>, severity |-> "warning"],
      [metadata |-> [cvss |-> 25], severity |-> "good"],
      [metadata |-> [severity |-> "secure"], severity |-> "high"] }

\* find = finding.get('metadata'); if not find: find = finding
metadata_or_self(f) ==
    IF Has(f, "metadata") /\ DOMAIN f.metadata # {} THEN f.metadata ELSE f

\* As score_iter, reading the severity with find.get('severity').
score_iter_lenient(st, f) ==
    LET find == IF Has(f, "metadata") /\ DOMAIN f.metadata # {}
                THEN f.metadata ELSE f
        sev  == IF Has(find, "severity") THEN find.severity ELSE "None"
    IN  [cvss_scores |->
             IF Has(find, "cvss") /\ find.cvss # 0
             THEN st.cvss_scores (+) SetToBag({find.cvss})
             ELSE st.cvss_scores,
         app_score |->
             CASE sev = "high"    -> st.app_score - 15
               [] sev = "warning" -> st.app_score - 10
               [] sev = "good"    -> st.app_score + 5
               [] OTHER           -> st.app_score,
         exc |-> "none"]

\* One iteration of the loop over findings.values(), on the locals
\* st = [cvss_scores, app_score, exc].
score_iter(st, f) ==
    LET find == metadata_or_self(f)
        cv   == IF Has(find, "cvss") /\ find.cvss # 0
                THEN st.cvss_scores (+) SetToBag({find.cvss})
                ELSE st.cvss_scores
    IN  IF ~ Has(find, "severity")
        THEN [cvss_scores |-> cv, app_score |-> st.app_score,
              exc |-> "KeyError"]
        ELSE [cvss_scores |-> cv,
              app_score |->
                  CASE find.severity = "high"    -> st.app_score - 15
                    [] find.severity = "warning" -> st.app_score - 10
                    [] find.severity = "good"    -> st.app_score + 5
                    [] OTHER                     -> st.app_score,
              exc |-> "none"]

RECURSIVE bag_sum(_)
bag_sum(b) ==
    IF DOMAIN b = {} THEN 0
    ELSE LET v == CHOOSE x \in DOMAIN b : TRUE
         IN  v * b[v] + bag_sum([x \in DOMAIN b \ {v} |-> b[x]])

\* round(num / den, 1) in tenths, num already in tenths: round half to even.
round_div(num, den) ==
    LET q == num \div den
        r == num % den
    IN  IF 2 * r > den \/ (2 * r = den /\ q % 2 = 1) THEN q + 1 ELSE q

\* The code after the loop: the mean of cvss_scores and the clamp.
score_finish(st) ==
    [kind |-> "returned",
     average_cvss |->
         IF BagCardinality(st.cvss_scores) > 0
         THEN round_div(bag_sum(st.cvss_scores),
                        BagCardinality(st.cvss_scores))
         ELSE 0,
     security_score |->
         IF st.app_score < 0 THEN 10
         ELSE IF st.app_score > 100 THEN 100
         ELSE st.app_score]

score_start == [cvss_scores |-> EmptyBag, app_score |-> 100, exc |-> "none"]

RECURSIVE score_loop(_, _)
score_loop(st, fs) ==
    IF fs = <<>> \/ st.exc # "none" THEN st
    ELSE Let(score_iter(st, Head(fs)), LAMBDA st2 :
         Let(Tail(fs), LAMBDA fs2 : score_loop(st2, fs2)))

\* score(findings), findings.values() given as a sequence.
score(fs) ==
    Let(score_loop(score_start, fs), LAMBDA st :
        IF st.exc # "none" THEN [kind |-> "raised", exc |-> st.exc]
        ELSE score_finish(st))

\* The finding with its severity replaced by "good".
as_good(f) ==
    IF Has(f, "metadata") /\ DOMAIN f.metadata # {}
    THEN [f EXCEPT !.metadata = [f.metadata EXCEPT !.severity = "good"]]
    ELSE [f EXCEPT !.severity = "good"]

\* The keys among severity and cvss that the finding's record does not have.
missing_keys(f) ==
    { k \in {"severity", "cvss"} : ~ Has(metadata_or_self(f), k) }

severity_of(f) ==
    IF Has(metadata_or_self(f), "severity")
    THEN metadata_or_self(f).severity ELSE "absent"

(***************************************************************************)
(* url_n_email_extract                                                     *)
(***************************************************************************)
MaxText == 5

LowerSeq == <<"a", "b", "c", "d", "e", "f", "g", "h", "i", "j", "k", "l", "m",
             "n", "o", "p", "q", "r", "s", "t", "u", "v", "w", "x", "y", "z">>
UpperSeq == <<"A", "B", "C", "D", "E", "F", "G", "H", "I", "J", "K", "L", "M",
             "N", "O", "P", "Q", "R", "S", "T", "U", "V", "W", "X", "Y", "Z">>
Lowers == { LowerSeq[i] : i \in DOMAIN LowerSeq }
Uppers == { UpperSeq[i] : i \in DOMAIN UpperSeq }
Digits == {"0", "1", "2", "3", "4", "5", "6", "7", "8", "9"}

\* \w
WordChars == Lowers \cup Uppers \cup Digits \cup {"_"}

\* [\w().=/;,#:@?&~*+!$%'{}-]
UrlChars == WordChars \cup {"(", ")", ".", "=", "/", ";", ",", "#", ":",
                            "@", "?", "&", "~", "*", "+", "!", "$", "%",
                            "'", "{", "}", "-"}

\* [\w.-] and [\w-]
LocalChars == WordChars \cup {".", "-"}
DomainChars == WordChars \cup {"-"}

\* The pieces the scanned texts are made of.
Pieces == { <<"h", "t", "t", "p", ":", "/", "/">>, <<"a", "b">>,
            <<"A", "B">>, <<" ">>, <<"@">>, <<".">> }

RECURSIVE Flatten(_)
Flatten(ps) == IF ps = <<>> THEN <<>> ELSE Head(ps) \o Flatten(Tail(ps))

Texts == { Flatten(ps) : ps \in UNION { [1..n -> Pieces] : n \in 0..MaxText } }

Paths == { <<"f">>, <<"<", "f", "&">> }

StartsWithAt(s, i, p) ==
    /\ i + Len(p) - 1 <= Len(s)
    /\ \A k \in 1..Len(p) : s[i + k - 1] = p[k]

\* Length of the longest run of characters of class C starting at s[i].
RECURSIVE RunLen(_, _, _)
RunLen(s, i, C) ==
    IF i > Len(s) \/ s[i] \notin C THEN 0 ELSE 1 + RunLen(s, i + 1, C)

Min(a, b) == IF a < b THEN a ELSE b

\* https?://|s?ftps?://|file://|javascript:|data:|www\d{0,3}[.]
\* The lengths of the prefixes that match at s[i].
UrlPrefixLens(s, i) ==
    { Len(p) : p \in { q \in { <<"h", "t", "t", "p", ":", "/", "/">>,
                               <<"h", "t", "t", "p", "s", ":", "/", "/">>,
                               <<"f", "t", "p", ":", "/", "/">>,
                               <<"s", "f", "t", "p", ":", "/", "/">>,
                               <<"f", "t", "p", "s", ":", "/", "/">>,
                               <<"s", "f", "t", "p", "s", ":", "/", "/">> } :
                       StartsWithAt(s, i, q) } }
    \cup { 3 + d + 1 : d \in { e \in 0..3 :
               /\ StartsWithAt(s, i, <<"w", "w", "w">>)
               /\ RunLen(s, i + 3, Digits) >= e
               /\ StartsWithAt(s, i + 3 + e, <<".">>) } }

\* End of the match of the URL pattern at s[i], 0 when there is none: a
\* prefix, then the longest non-empty run of URL characters.  Every prefix
\* character is a URL character, so the match ends where the run from i ends.
UrlMatchEnd(s, i) ==
    IF \E n \in UrlPrefixLens(s, i) : RunLen(s, i + n, UrlChars) >= 1
    THEN i + RunLen(s, i, UrlChars) - 1
    ELSE 0

\* re.findall(pattern, dat) from position i on.
RECURSIVE url_findall(_, _)
url_findall(s, i) ==
    IF i > Len(s) THEN <<>>
    ELSE LET e == UrlMatchEnd(s, i)
         IN  IF e = 0 THEN url_findall(s, i + 1)
             ELSE <<SubSeq(s, i, e)>> \o url_findall(s, e + 1)

\* End of the match of [\w.-]{1,20}@[\w-]{1,20}\.[\w]{2,10} at s[i], or 0.
\* '@' is outside the first class and '.' outside the second, so each of
\* those parts is the whole run; the last part is greedy up to 10.
EmailMatchEnd(s, i) ==
    LET k == RunLen(s, i, LocalChars)
        d == RunLen(s, i + k + 1, DomainChars)
        t == Min(RunLen(s, i + k + d + 2, WordChars), 10)
    IN  IF /\ k >= 1 /\ k <= 20
           /\ StartsWithAt(s, i + k, <<"@">>)
           /\ d >= 1 /\ d <= 20
           /\ StartsWithAt(s, i + k + 1 + d, <<".">>)
           /\ t >= 2
        THEN i + k + d + 1 + t
        ELSE 0

RECURSIVE email_findall(_, _)
email_findall(s, i) ==
    IF i > Len(s) THEN <<>>
    ELSE LET e == EmailMatchEnd(s, i)
         IN  IF e = 0 THEN email_findall(s, i + 1)
             ELSE <<SubSeq(s, i, e)>> \o email_findall(s, e + 1)

\* str.lower()
LowerChar(c) ==
    IF c \in Uppers
    THEN LowerSeq[CHOOSE i \in DOMAIN UpperSeq : UpperSeq[i] = c]
    ELSE c
lower(s) == [i \in 1..Len(s) |-> LowerChar(s[i])]

\* django.utils.html.escape
EscapeChar(c) ==
    CASE c = "<" -> <<"&", "l", "t", ";">>
      [] c = ">" -> <<"&", "g", "t", ";">>
      [] c = "&" -> <<"&", "a", "m", "p", ";">>
      [] OTHER   -> <<c>>
escape(s) == Flatten([i \in 1..Len(s) |-> EscapeChar(s[i])])

InSeq(x, xs) == \E i \in 1..Len(xs) : xs[i] = x

\* for x in found: if x not in acc (and keep(x)): acc.append(x)
RECURSIVE append_new(_, _, _)
append_new(acc, found, skip) ==
    IF found = <<>> THEN acc
    ELSE append_new(IF InSeq(Head(found), acc) \/ Head(found) \in skip
                    THEN acc ELSE Append(acc, Head(found)),
                    Tail(found), skip)

url_n_email_extract(text, path) ==
    LET urllist    == url_findall(text, 1)
        uniq       == append_new(<<>>, urllist, {})
        found      == email_findall(lower(text), 1)
        emails     == append_new(<<>>, found,
                          { m \in { found[i] : i \in 1..Len(found) } :
                                StartsWithAt(m, 1, <<"/", "/">>) })
        url_n_file == IF uniq # <<>>
                      THEN <<[urls |-> uniq, path |-> escape(path)]>>
                      ELSE <<>>
        email_n_file == IF emails # <<>>
                        THEN <<[emails |-> emails, path |-> escape(path)]>>
                        ELSE <<>>
    IN  [urllist |-> urllist, url_n_file |-> url_n_file,
         email_n_file |-> email_n_file]

(***************************************************************************)
(* open_firebase and firebase_analysis                                     *)
(***************************************************************************)
MaxUrls == 3

Marker == <<"f", "i", "r", "e", "b", "a", "s", "e", "i", "o", ".", "c", "o", "m">>

HostFb == <<"x", ".">> \o Marker
HostE == <<"e", ".", "c", "o">>
Https == <<"h", "t", "t", "p", "s">>

\* The URLs handed to the probe.
Urls ==
    { Https \o <<":", "/", "/">> \o HostFb \o <<"/">>,
      <<"H", "T", "T", "P", "S", ":", "/", "/">> \o HostFb \o <<"/", "a">>,
      Https \o <<":", "/", "/">> \o HostE \o <<"/", "?">> \o Marker,
      Https \o <<":", "/", "/">> \o HostE \o <<"/">>,
      Https \o <<":", "/", "/", "[">> \o Marker,
      Marker }

\* What upstream_proxy('https') and requests.get(...) do on one probe.
Responses ==
    { [proxy |-> "raises"],
      [proxy |-> "ok", get |-> "raises"],
      [proxy |-> "ok", get |-> "ok", status_code |-> 200],
      [proxy |-> "ok", get |-> "ok", status_code |-> 404] }

Contains(s, p) == \E i \in 1..Len(s) : StartsWithAt(s, i, p)

\* Index of the first character of s at or after i that is in C, else Len+1.
RECURSIVE Find(_, _, _)
Find(s, i, C) ==
    IF i > Len(s) \/ s[i] \in C THEN i ELSE Find(s, i + 1, C)

\* urllib.parse.urlparse: the scheme and the netloc, or ValueError.
urlparse(u) ==
    Let(Find(u, 1, {":"}), LAMBDA colon :
    Let(/\ colon > 1 /\ colon <= Len(u)
        /\ u[1] \in Lowers \cup Uppers
        /\ \A k \in 1..(colon - 1) :
              u[k] \in Lowers \cup Uppers \cup Digits \cup {"+", "-", "."},
        LAMBDA has :
    Let(IF has THEN SubSeq(u, colon + 1, Len(u)) ELSE u, LAMBDA rest :
    Let(IF StartsWithAt(rest, 1, <<"/", "/">>)
        THEN SubSeq(rest, 3, Find(rest, 3, {"/", "?", "#"}) - 1)
        ELSE <<>>, LAMBDA netloc :
        IF InSeq("[", netloc) # InSeq("]", netloc)
        THEN [exc |-> "ValueError"]
        ELSE [exc |-> "none",
              scheme |-> IF has THEN lower(SubSeq(u, 1, colon - 1))
                         ELSE <<>>,
              netloc |-> netloc]))))

\* What the proxy lookup and the network can answer to a probe of u:
\* requests.get raises on a URL that has no http(s) scheme or no host.
Feasible(u) ==
    Let(urlparse(u), LAMBDA purl :
        IF purl.exc = "none"
           /\ (\/ purl.scheme \notin {<<"h", "t", "t", "p">>, Https}
               \/ purl.netloc = <<>>)
        THEN { r \in Responses : r.proxy = "raises" \/ r.get = "raises" }
        ELSE Responses)

\* The exception classes derived from Exception that the body can raise.
Exceptions == {"ValueError", "ProxyError", "RequestException"}

\* The try block of open_firebase: the exception raised ("none" if none),
\* the value returned inside the block (None if it falls through), and the
\* external calls made.
open_firebase_try(u, resp) ==
    Let(urlparse(u), LAMBDA purl :
        IF purl.exc # "none"
        THEN [exc |-> purl.exc, ret |-> None, calls |-> <<>>]
        ELSE IF resp.proxy = "raises"
        THEN [exc |-> "ProxyError", ret |-> None,
              calls |-> <<Call("upstream_proxy", <<>>)>>]
        ELSE Let(purl.scheme \o <<":", "/", "/">> \o purl.netloc
                     \o <<"/", ".", "j", "s", "o", "n">>, LAMBDA base_url :
             Let(<<Call("upstream_proxy", <<>>),
                   Call("requests.get", base_url)>>, LAMBDA log :
                 IF resp.get = "raises"
                 THEN [exc |-> "RequestException", ret |-> None,
                       calls |-> log]
                 ELSE [exc |-> "none",
                       ret |-> IF resp.status_code = 200
                               THEN [kind |-> "returned",
                                     returl |-> base_url, is_open |-> TRUE]
                               ELSE None,
                       calls |-> log])))

\* As open_firebase, catching only the exceptions of the request.
open_firebase_narrow_except(u, resp) ==
    Let(open_firebase_try(u, resp), LAMBDA body :
        IF body.exc = "none" /\ body.ret # None
        THEN [ret |-> body.ret, calls |-> body.calls]
        ELSE IF body.exc \in {"none", "ProxyError", "RequestException"}
        THEN [ret |-> [kind |-> "returned", returl |-> u, is_open |-> FALSE],
              calls |-> body.calls]
        ELSE [ret |-> [kind |-> "raised", exc |-> body.exc],
              calls |-> body.calls])

\* open_firebase(url): the try block, `except Exception`, and the final
\* `return url, False`.
open_firebase(u, resp) ==
    Let(open_firebase_try(u, resp), LAMBDA body :
        IF body.exc = "none" /\ body.ret # None
        THEN [ret |-> body.ret, calls |-> body.calls]
        ELSE IF body.exc = "none" \/ body.exc \in Exceptions
        THEN [ret |-> [kind |-> "returned", returl |-> u, is_open |-> FALSE],
              calls |-> body.calls]
        ELSE [ret |-> [kind |-> "raised", exc |-> body.exc],
              calls |-> body.calls])

\* As firebase_add, without the membership test.
firebase_add_always(firebase_db, fbdic) == Append(firebase_db, fbdic)

\* if fbdic not in firebase_db: firebase_db.append(fbdic)
firebase_add(firebase_db, fbdic) ==
    IF InSeq(fbdic, firebase_db) THEN firebase_db
    ELSE Append(firebase_db, fbdic)

\* The loop of firebase_analysis over urls[i..], resps holding the answers
\* for the probes still to come.
RECURSIVE firebase_loop(_, _, _, _)
firebase_loop(us, resps, firebase_db, log) ==
    IF us = <<>>
    THEN [ret |-> [kind |-> "returned", firebase_db |-> firebase_db],
          calls |-> log]
    ELSE IF Contains(Head(us), Marker)
    THEN Let(open_firebase(Head(us), Head(resps)), LAMBDA r :
         Let(log \o <<Call("open_firebase", Head(us))>> \o r.calls,
             LAMBDA log2 :
             IF r.ret.kind = "raised"
             THEN [ret |-> r.ret, calls |-> log2]
             ELSE Let(firebase_add(firebase_db,
                                   [url |-> r.ret.returl,
                                    open |-> r.ret.is_open]), LAMBDA db2 :
                  Let(Tail(us), LAMBDA us2 :
                  Let(Tail(resps), LAMBDA resps2 :
                      firebase_loop(us2, resps2, db2, log2))))))
    ELSE Let(Tail(us), LAMBDA us2 : firebase_loop(us2, resps, firebase_db, log))

firebase_analysis(us, resps) == firebase_loop(us, resps, <<>>, <<>>)

\* The URLs of us that firebase_analysis probes.
Probed(us) == SelectSeq(us, LAMBDA u : Contains(u, Marker))

(***************************************************************************)
(* pdf and its platform handlers                                           *)
(***************************************************************************)
StoredHash == Rep("a", HashLen)

PdfHashes ==
    { StoredHash, Rep("0", HashLen), StoredHash \o <<NL>>,
      Rep("a", HashLen - 1), Rep("a", HashLen + 1),
      SetAt(StoredHash, 1, "A"), <<>> }

\* The request: the api and jsonres arguments and the POST / GET parameters.
Requests ==
    { [api |-> a, jsonres |-> j, POST |-> ps, GET |-> <<>>] :
          a \in {TRUE}, j \in BOOLEAN,
          ps \in {<<>>} \cup { [hash |-> h] : h \in PdfHashes } }
    \cup
    { [api |-> a, jsonres |-> j, POST |-> <<>>, GET |-> gs] :
          a \in {FALSE}, j \in {FALSE},
          gs \in {<<>>} \cup { [md5 |-> h] : h \in PdfHashes } }

Dot == "."
ApkName == <<"a", Dot, "a", "p", "k">>
ZipName == <<"S", Dot, "Z", "I", "P">>
ZipExt == <<Dot, "z", "i", "p">>

NoRec == [kind |-> "none"]

\* The record a store holds for StoredHash.
Recs ==
    { [kind |-> "rec", MD5 |-> StoredHash, file_name |-> fn,
       code_analysis |-> ca,
       binary_analysis |-> <<[severity |-> "warning", cvss |-> 25]>>] :
          fn \in {ApkName, ZipName},
          ca \in { <<[metadata |-> [severity |-> "high", cvss |-> 75]]>>,
                   <<[metadata |-> [cvss |-> 25], severity |-> "good"]>> } }

PdfCalls == {"exists", "get_context_from_db_entry", "get_template",
             "VirusTotal.get_result", "RecentScansDB.objects.get",
             "upstream_proxy", "template.render", "pdfkit.from_string"}

\* The three stores, RecentScansDB, the settings, the host and the
\* collaborator that raises when called ("none" when all work).
Envs ==
    UNION { { [android |-> a, ios |-> i, win |-> w, recent |-> r, VT_ENABLED |-> vt,
       system |-> sy, fail |-> f] :
          a \in {NoRec, rec}, i \in {NoRec, rec}, w \in {NoRec, rec},
          r \in BOOLEAN, vt \in BOOLEAN, sy \in {"Linux", "Windows"},
          f \in PdfCalls \cup {"none"} } : rec \in Recs }

Put(d, k, v) ==
    Let(d, LAMBDA dd :
    Let(v, LAMBDA vv :
        [x \in DOMAIN dd \cup {k} |-> IF x = k THEN vv ELSE dd[x]]))

EndsWith(s, p) == Len(s) >= Len(p) /\ StartsWithAt(s, Len(s) - Len(p) + 1, p)

\* os.path.splitext(p)[1]: from the last dot on, unless only dots precede it.
splitext_ext(s) ==
    LET dots == { i \in 1..Len(s) : s[i] = Dot }
        last == CHOOSE i \in dots : \A j \in dots : j <= i
    IN  IF dots = {} \/ \A j \in 1..(last - 1) : s[j] = Dot
        THEN <<>>
        ELSE SubSeq(s, last, Len(s))

\* Model.objects.filter(MD5=checksum).exists()
exists(store, checksum) == store # NoRec /\ store.MD5 = checksum

Raise(exc, log) == [exc |-> exc, ret |-> None, calls |-> log]
Ok(ret, log) == [exc |-> "none", ret |-> ret, calls |-> log]

\* get_context_from_db_entry of each platform, then get_template.
db_context(rec) ==
    [file_name |-> rec.file_name, code_analysis |-> rec.code_analysis,
     binary_analysis |-> rec.binary_analysis]

\* context['average_cvss'], context['security_score'] = score(findings),
\* followed by get_template(name).
score_into(ctx, fs, name, e, log) ==
    Let(score(fs), LAMBDA sc :
    Let(log \o <<Call("score", fs)>>, LAMBDA log2 :
    Let(log2 \o <<Call("get_template", name)>>, LAMBDA log3 :
        IF sc.kind = "raised" THEN Raise(sc.exc, log2)
        ELSE IF e.fail = "get_template" THEN Raise("get_template", log3)
        ELSE [exc |-> "none", calls |-> log3, template |-> name,
              context |-> Put(Put(ctx, "average_cvss", sc.average_cvss),
                              "security_score", sc.security_score)])))

handle_pdf_android(static_db, e) ==
    LET log == <<Call("handle_pdf_android", <<>>),
                 Call("get_context_from_db_entry", "android")>>
    IN  IF e.fail = "get_context_from_db_entry"
        THEN Raise("get_context_from_db_entry", log)
        ELSE score_into(db_context(static_db), static_db.code_analysis,
                        "pdf/android_report.html", e, log)

handle_pdf_ios(static_db, e) ==
    LET log == <<Call("handle_pdf_ios", <<>>),
                 Call("get_context_from_db_entry", "ios")>>
    IN  IF e.fail = "get_context_from_db_entry"
        THEN Raise("get_context_from_db_entry", log)
        ELSE Let(IF EndsWith(lower(static_db.file_name), ZipExt)
                 THEN static_db.code_analysis
                 ELSE static_db.binary_analysis, LAMBDA fs :
                 score_into(db_context(static_db), fs,
                            "pdf/ios_report.html", e, log))

handle_pdf_win(static_db, e) ==
    LET log  == <<Call("handle_pdf_win", <<>>),
                  Call("get_context_from_db_entry", "windows")>>
        log2 == log \o <<Call("get_template", "pdf/windows_report.html")>>
    IN  IF e.fail = "get_context_from_db_entry"
        THEN Raise("get_context_from_db_entry", log)
        ELSE IF e.fail = "get_template" THEN Raise("get_template", log2)
        ELSE [exc |-> "none", calls |-> log2,
              template |-> "pdf/windows_report.html",
              context |-> db_context(static_db)]

\* As pdf_branch, with the iOS store looked up first.
pdf_branch_ios_first(checksum, e) ==
    IF exists(e.ios, checksum)
    THEN [branch |-> "ios", calls |-> <<Call("exists", "ios")>>]
    ELSE IF exists(e.android, checksum)
    THEN [branch |-> "android",
          calls |-> <<Call("exists", "ios"), Call("exists", "android")>>]
    ELSE IF exists(e.win, checksum)
    THEN [branch |-> "win",
          calls |-> <<Call("exists", "ios"), Call("exists", "android"),
                      Call("exists", "win")>>]
    ELSE [branch |-> "none",
          calls |-> <<Call("exists", "ios"), Call("exists", "android"),
                      Call("exists", "win")>>]

\* The if / elif chain over the three exists() lookups: the branch taken and
\* the lookups evaluated.
pdf_branch(checksum, e) ==
    IF exists(e.android, checksum)
    THEN [branch |-> "android", calls |-> <<Call("exists", "android")>>]
    ELSE IF exists(e.ios, checksum)
    THEN [branch |-> "ios",
          calls |-> <<Call("exists", "android"), Call("exists", "ios")>>]
    ELSE IF exists(e.win, checksum)
    THEN [branch |-> "win",
          calls |-> <<Call("exists", "android"), Call("exists", "ios"),
                      Call("exists", "win")>>]
    ELSE [branch |-> "none",
          calls |-> <<Call("exists", "android"), Call("exists", "ios"),
                      Call("exists", "win")>>]

\* The inner try block: the JSON context, or proxy, render and pdfkit.
pdf_render(req, context, template, e) ==
    LET log1 == <<Call("upstream_proxy", "https")>>
        log2 == log1 \o <<Call("template.render", template)>>
        log3 == log2 \o <<Call("pdfkit.from_string", <<>>)>>
        failed(exc, log) ==
            Ok(IF req.api
               THEN [kind |-> "dict", key |-> "error",
                     value |-> "Cannot Generate PDF/JSON",
                     err_details |-> exc]
               ELSE [kind |-> "HttpResponse", key |-> "pdf_error",
                     value |-> "Cannot Generate PDF",
                     err_details |-> exc, status |-> 500], log)
    IN  IF req.api /\ req.jsonres
        THEN Ok([kind |-> "dict", key |-> "report_dat", value |-> context],
                <<>>)
        ELSE IF e.fail = "upstream_proxy"
        THEN failed("upstream_proxy", log1)
        ELSE IF e.fail = "template.render"
        THEN failed("template.render", log2)
        ELSE IF e.fail = "pdfkit.from_string"
        THEN failed("pdfkit.from_string", log3)
        ELSE IF req.api
        THEN Ok([kind |-> "dict", key |-> "pdf_dat", value |-> context], log3)
        ELSE Ok([kind |-> "HttpResponse", key |-> "pdf", value |-> context,
                 status |-> 200], log3)

\* Lines 150-170: the VirusTotal lookup, the environment fields and the
\* timestamp, then the inner try block.
pdf_report(req, checksum, h, e) ==
    Let(splitext_ext(lower(h.context.file_name)), LAMBDA ext :
    Let(e.VT_ENABLED /\ ext # ZipExt, LAMBDA useVt :
    Let(IF useVt
        THEN h.calls \o <<Call("VirusTotal.get_result", checksum)>>
        ELSE h.calls, LAMBDA log1 :
    Let(log1 \o <<Call("RecentScansDB.objects.get", checksum)>>,
        LAMBDA log2 :
        IF useVt /\ e.fail = "VirusTotal.get_result"
        THEN Raise("VirusTotal.get_result", log1)
        ELSE IF e.fail = "RecentScansDB.objects.get"
        THEN Raise("RecentScansDB.objects.get", log2)
        ELSE IF ~ e.recent THEN Raise("DoesNotExist", log2)
        ELSE Let(Put(Put(Put(h.context,
                     "virus_total", IF useVt THEN "vt_result" ELSE "None"),
                     "host_os",
                     IF e.system = "Windows" THEN "windows" ELSE "nix"),
                     "timestamp", "TIMESTAMP"), LAMBDA ctx :
             Let(pdf_render(req, ctx, h.template, e), LAMBDA r :
                 [exc |-> r.exc, ret |-> r.ret,
                  calls |-> log2 \o r.calls]))))))

\* The body of the outer try block.
pdf_try(req, e) ==
    LET key    == IF req.api THEN "hash" ELSE "md5"
        params == IF req.api THEN req.POST ELSE req.GET
    IN  IF ~ Has(params, key) THEN Raise("MultiValueDictKeyError", <<>>)
        ELSE IF ~ re_match_hash(params[key])
        THEN Ok(IF req.api
                THEN [kind |-> "dict", key |-> "error",
                      value |-> "Invalid scan hash"]
                ELSE [kind |-> "HttpResponse", key |-> "md5",
                      value |-> "Invalid scan hash", status |-> 500], <<>>)
        ELSE IF e.fail = "exists"
        THEN Raise("exists", <<Call("exists", "android")>>)
        ELSE Let(pdf_branch(params[key], e), LAMBDA b :
             IF b.branch = "none"
             THEN Ok(IF req.api
                     THEN [kind |-> "dict", key |-> "report",
                           value |-> "Report not Found"]
                     ELSE [kind |-> "HttpResponse", key |-> "report",
                           value |-> "Report not Found",
                           status |-> 500], b.calls)
             ELSE Let(CASE b.branch = "android" ->
                               handle_pdf_android(e.android, e)
                        [] b.branch = "ios" -> handle_pdf_ios(e.ios, e)
                        [] b.branch = "win" -> handle_pdf_win(e.win, e),
                      LAMBDA h :
                  Let([h EXCEPT !.calls = b.calls \o h.calls], LAMBDA hh :
                      IF hh.exc # "none" THEN Raise(hh.exc, hh.calls)
                      ELSE pdf_report(req, params[key], hh, e))))

\* The exception classes derived from Exception that the body can raise.
PdfExceptions == PdfCalls \cup {"MultiValueDictKeyError", "KeyError",
                                "DoesNotExist"}

\* As pdf, with the outer handler catching only the errors of the lookups.
pdf_narrow_except(req, e) ==
    Let(pdf_try(req, e), LAMBDA b :
        IF b.exc = "none" THEN [ret |-> b.ret, calls |-> b.calls]
        ELSE IF b.exc \in PdfCalls \cup {"DoesNotExist"}
        THEN [ret   |-> print_n_send_error_response(b.exc, req.api),
              calls |-> b.calls
                        \o <<Call("print_n_send_error_response", b.exc)>>]
        ELSE [ret |-> [kind |-> "raised", exc |-> b.exc], calls |-> b.calls])

\* pdf(request, api, jsonres): the outer try block and `except Exception`.
pdf(req, e) ==
    Let(pdf_try(req, e), LAMBDA b :
        IF b.exc = "none" THEN [ret |-> b.ret, calls |-> b.calls]
        ELSE IF b.exc \in PdfExceptions
        THEN [ret   |-> print_n_send_error_response(b.exc, req.api),
              calls |-> b.calls
                        \o <<Call("print_n_send_error_response", b.exc)>>]
        ELSE [ret |-> [kind |-> "raised", exc |-> b.exc], calls |-> b.calls])

InitScore ==
    /\ n_findings = 0
    /\ finding = NoFinding
    /\ cvss_scores = EmptyBag
    /\ app_score = 100
    /\ score_ret = None
    /\ lacking = {}
    /\ swapped = FALSE
    /\ alt_app_score = 100
    /\ alt_ret = None

Init ==
    /\ InitScore
    /\ op = "idle"
    /\ calls = <<>>
    /\ dat = <<>>
    /\ relative_path = <<>>
    /\ extract_ret = None
    /\ url = <<>>
    /\ urls = <<>>
    /\ responses = <<>>
    /\ firebase_ret = None
    /\ request = None
    /\ env = None
    /\ pdf_ret = None
    /\ hash1 = <<>>
    /\ hash2 = <<>>
    /\ compare_ret = None

CallCompareApps ==
    /\ op = "idle"
    /\ \E h1 \in Hashes, h2 \in Hashes, api \in BOOLEAN :
          LET r == compare_apps(h1, h2, api) IN
          /\ op' = "compare_apps"
          /\ hash1' = h1
          /\ hash2' = h2
          /\ compare_ret' = r.ret
          /\ calls' = r.calls
    /\ UNCHANGED <<scoreVars, extractVars, firebaseVars, pdfVars>>

CallUrlNEmailExtract ==
    /\ op = "idle"
    /\ \E text \in Texts, path \in Paths :
          /\ op' = "url_n_email_extract"
          /\ dat' = text
          /\ relative_path' = path
          /\ extract_ret' = url_n_email_extract(text, path)
    /\ UNCHANGED <<calls, compareVars, scoreVars, firebaseVars, pdfVars>>

\* score is entered: the locals are initialised.
CallScore ==
    /\ op = "idle"
    /\ op' = "score"
    /\ UNCHANGED <<calls, compareVars, scoreVars, extractVars, firebaseVars, pdfVars>>

\* One iteration of the loop.  The companion call iterates the same mapping
\* except that one finding of severity high is replaced by a good one.
ScoreLoop ==
    /\ op = "score"
    /\ score_ret = None
    /\ n_findings < MaxFindings
    /\ \E f \in Findings, swap \in BOOLEAN :
          LET st  == score_iter([cvss_scores |-> cvss_scores,
                                 app_score |-> app_score,
                                 exc |-> "none"], f)
              alt == score_iter([cvss_scores |-> EmptyBag,
                                 app_score |-> alt_app_score,
                                 exc |-> "none"],
                                IF swap THEN as_good(f) ELSE f)
          IN  /\ swap => ~ swapped /\ severity_of(f) = "high"
              /\ finding' = f
              /\ n_findings' = n_findings + 1
              /\ cvss_scores' = st.cvss_scores
              /\ app_score' = st.app_score
              /\ alt_app_score' = alt.app_score
              /\ swapped' = (swapped \/ swap)
              /\ lacking' = lacking \cup missing_keys(f)
              /\ IF st.exc # "none"
                 THEN /\ score_ret' = [kind |-> "raised", exc |-> st.exc]
                      /\ alt_ret' = [kind |-> "raised", exc |-> alt.exc]
                 ELSE UNCHANGED <<score_ret, alt_ret>>
    /\ UNCHANGED <<op, calls, compareVars, extractVars, firebaseVars, pdfVars>>

\* The loop is over: the mean, the clamp and the return.
ScoreReturn ==
    /\ op = "score"
    /\ score_ret = None
    /\ score_ret' = score_finish([cvss_scores |-> cvss_scores,
                                  app_score |-> app_score])
    /\ alt_ret' = [kind |-> "returned",
                   security_score |->
                       score_finish([cvss_scores |-> EmptyBag,
                                     app_score |-> alt_app_score])
                           .security_score]
    /\ UNCHANGED <<op, calls, compareVars, extractVars, firebaseVars, pdfVars, n_findings, finding, cvss_scores,
                   app_score, lacking, swapped, alt_app_score>>

Return ==
    /\ op # "idle"
    /\ op' = "idle"
    /\ calls' = <<>>
    /\ hash1' = <<>>
    /\ hash2' = <<>>
    /\ compare_ret' = None
    /\ n_findings' = 0
    /\ finding' = NoFinding
    /\ cvss_scores' = EmptyBag
    /\ app_score' = 100
    /\ score_ret' = None
    /\ lacking' = {}
    /\ swapped' = FALSE
    /\ alt_app_score' = 100
    /\ alt_ret' = None
    /\ dat' = <<>>
    /\ relative_path' = <<>>
    /\ extract_ret' = None
    /\ url' = <<>>
    /\ urls' = <<>>
    /\ responses' = <<>>
    /\ firebase_ret' = None
    /\ request' = None
    /\ env' = None
    /\ pdf_ret' = None

CallPdf ==
    /\ op = "idle"
    /\ \E req \in Requests, e \in Envs :
       \E r \in {pdf(req, e)} :
          /\ op' = "pdf"
          /\ request' = req
          /\ env' = e
          /\ pdf_ret' = r.ret
          /\ calls' = r.calls
    /\ UNCHANGED <<compareVars, scoreVars, extractVars, firebaseVars>>

CallOpenFirebase ==
    /\ op = "idle"
    /\ \E u \in Urls :
       \E resp \in Feasible(u) :
       \E r \in {open_firebase(u, resp)} :
          /\ op' = "open_firebase"
          /\ url' = u
          /\ responses' = <<resp>>
          /\ firebase_ret' = r.ret
          /\ calls' = r.calls
    /\ UNCHANGED <<urls, compareVars, scoreVars, extractVars, pdfVars>>

CallFirebaseAnalysis ==
    /\ op = "idle"
    /\ \E us \in UNION { [1..n -> Urls] : n \in 0..MaxUrls } :
       \E resps \in [1..Len(Probed(us)) -> Responses] :
          /\ \A k \in 1..Len(resps) : resps[k] \in Feasible(Probed(us)[k])
          /\ \E r \in {firebase_analysis(us, resps)} :
                /\ op' = "firebase_analysis"
                /\ urls' = us
                /\ responses' = resps
                /\ firebase_ret' = r.ret
                /\ calls' = r.calls
    /\ UNCHANGED <<url, compareVars, scoreVars, extractVars, pdfVars>>

Next ==
    \/ CallCompareApps
    \/ CallPdf
    \/ CallOpenFirebase
    \/ CallFirebaseAnalysis
    \/ CallUrlNEmailExtract
    \/ CallScore
    \/ ScoreLoop
    \/ ScoreReturn
    \/ Return

Spec == Init /\ [][Next]_vars

\* One specification per component: the calls of that component only.
NextScore == CallScore \/ ScoreLoop \/ ScoreReturn \/ Return
SpecScore == Init /\ [][NextScore]_vars

NextExtract == CallUrlNEmailExtract \/ Return
SpecExtract == Init /\ [][NextExtract]_vars

NextCompare == CallCompareApps \/ Return
SpecCompare == Init /\ [][NextCompare]_vars

NextFirebase == CallOpenFirebase \/ CallFirebaseAnalysis \/ Return
SpecFirebase == Init /\ [][NextFirebase]_vars

NextPdf == CallPdf \/ Return
SpecPdf == Init /\ [][NextPdf]_vars

(***************************************************************************)
(* Properties                                                              *)
(***************************************************************************)
NoDup(xs) == \A i, j \in 1..Len(xs) : xs[i] = xs[j] => i = j

FirstIndex(x, xs) ==
    CHOOSE i \in 1..Len(xs) : xs[i] = x /\ \A j \in 1..(i - 1) : xs[j] # x

\* out lists each element of xs once, in the order of first occurrence.
IsFirstOccurrences(out, xs) ==
    /\ NoDup(out)
    /\ { out[i] : i \in 1..Len(out) } = { xs[i] : i \in 1..Len(xs) }
    /\ \A a, b \in 1..Len(out) :
          a < b => FirstIndex(out[a], xs) < FirstIndex(out[b], xs)

Called(fn) == \E i \in 1..Len(calls) : calls[i].fn = fn

CallsOf(fns) == SelectSeq(calls, LAMBDA c : c.fn \in fns)

\* The finding has no severity key: in its non-empty metadata record when
\* there is one, otherwise at top level.
LacksSeverity(f) ==
    IF "metadata" \in DOMAIN f /\ DOMAIN f.metadata # {}
    THEN "severity" \notin DOMAIN f.metadata
    ELSE "severity" \notin DOMAIN f

\* Exactly 32 lowercase hexadecimal characters.
IsLowerHex32(h) == Len(h) = 32 /\ \A i \in 1..Len(h) : h[i] \in HexLower

\* C1: for findings that all have a severity and a cvss, the security_score
\* returned by score lies in [10, 100].
C1_ScoreInRange ==
    (op = "score" /\ score_ret.kind = "returned" /\ lacking = {})
        => score_ret.security_score \in 10..100

\* C2: replacing one high finding by a good finding, the others fixed, never
\* decreases the security_score returned by score.
C2_ScoreMonotone ==
    (op = "score" /\ score_ret.kind = "returned" /\ swapped)
        => alt_ret.security_score >= score_ret.security_score

\* C3: the urls sequence returned by url_n_email_extract has no duplicates
\* and lists the matched URLs in the order of their first occurrence.
C3_UrlsDeduplicated ==
    op = "url_n_email_extract"
        => IsFirstOccurrences(extract_ret.urllist, url_findall(dat, 1))

\* C4: compare_apps invokes generic_compare iff the hashes differ and both
\* pass the format check; identical hashes get the same-hash error before the
\* format check, a store lookup or the engine; a malformed hash gets the
\* invalid-hash error without the engine.
C4_CompareGate ==
    op = "compare_apps" =>
        /\ Called("generic_compare")
              <=> (hash1 # hash2 /\ is_md5(hash1) /\ is_md5(hash2))
        /\ hash1 = hash2 =>
              /\ compare_ret.kind = "error"
              /\ compare_ret.msg = "Results with same hash cannot be compared"
              /\ ~ Called("is_md5") /\ ~ Called("exists")
              /\ ~ Called("generic_compare")
        /\ (hash1 # hash2 /\ ~ (is_md5(hash1) /\ is_md5(hash2))) =>
              /\ compare_ret.kind = "error"
              /\ compare_ret.msg = "Invalid hashes"

C4_Witness ==
    /\ op = "compare_apps"
    /\ hash1 = hash2 /\ ~ is_md5(hash1) /\ Len(hash1) > 0
    /\ compare_ret.kind = "error"
    /\ compare_ret.msg = "Results with same hash cannot be compared"

PdfHasHash ==
    /\ op = "pdf"
    /\ Has(IF request.api THEN request.POST ELSE request.GET,
           IF request.api THEN "hash" ELSE "md5")

PdfHash == IF request.api THEN request.POST.hash ELSE request.GET.md5

HasRecord(store, h) == store # NoRec /\ store.MD5 = h

PdfReturns(keys, value) ==
    /\ pdf_ret.kind \in {"dict", "HttpResponse"}
    /\ pdf_ret.key \in keys
    /\ pdf_ret.value = value

\* C5: pdf returns the invalid-hash error for every scan hash that is not
\* exactly 32 lowercase hex characters and the report-not-found error for a
\* well-formed hash with no record in any store, in both cases before any
\* scoring, reputation lookup, timestamp lookup or render (stated for the
\* calls whose store lookups answer).
C5_InvalidOrNotFound ==
    (PdfHasHash /\ env.fail # "exists") =>
        /\ ~ IsLowerHex32(PdfHash) =>
              PdfReturns({"error", "md5"}, "Invalid scan hash")
              /\ calls = <<>>
        /\ (/\ IsLowerHex32(PdfHash)
            /\ ~ HasRecord(env.android, PdfHash)
            /\ ~ HasRecord(env.ios, PdfHash)
            /\ ~ HasRecord(env.win, PdfHash)) =>
              PdfReturns({"report"}, "Report not Found")
              /\ CallsOf({"score", "VirusTotal.get_result",
                          "RecentScansDB.objects.get", "template.render",
                          "pdfkit.from_string"}) = <<>>

\* What open_firebase answers for the k-th probed URL.
Produced ==
    [k \in 1..Len(Probed(urls)) |->
        LET r == open_firebase(Probed(urls)[k], responses[k]).ret
        IN  [url |-> r.returl, open |-> r.is_open]]

\* C6: firebase_analysis probes exactly the URLs containing firebaseio.com,
\* in input order, and its result lists each (url, open) tuple once, ordered
\* by the first input position that produced it.
C6_FirebaseScan ==
    op = "firebase_analysis" =>
        /\ firebase_ret.kind = "returned"
        /\ LET probes == CallsOf({"open_firebase"})
           IN  /\ Len(probes) = Len(Probed(urls))
               /\ \A k \in 1..Len(probes) :
                     /\ probes[k].arg = Probed(urls)[k]
                     /\ Contains(probes[k].arg, Marker)
        /\ Len(CallsOf({"requests.get"})) <= Len(Probed(urls))
        /\ IsFirstOccurrences(firebase_ret.firebase_db, Produced)

C6_Witness ==
    /\ op = "firebase_analysis"
    /\ firebase_ret.kind = "returned"
    /\ Len(urls) = 3
    /\ ~ Contains(urls[2], Marker)
    /\ urls[1] # urls[3]
    /\ Len(Probed(urls)) = 2
    /\ Len(firebase_ret.firebase_db) = 1
    /\ firebase_ret.firebase_db[1].open

\* C7: open_firebase never raises; it returns (scheme://host/.json, True)
\* exactly when its single request completes with status 200, and the input
\* URL with False otherwise.
C7_ProbeNeverRaises ==
    op = "open_firebase" =>
        LET gets == CallsOf({"requests.get"})
            done200 == /\ Len(gets) = 1
                       /\ responses[1].proxy = "ok"
                       /\ responses[1].get = "ok"
                       /\ responses[1].status_code = 200
        IN  /\ firebase_ret.kind = "returned"
            /\ Len(gets) <= 1
            /\ IF done200
               THEN /\ firebase_ret.is_open
                    /\ firebase_ret.returl =
                          urlparse(url).scheme \o <<":", "/", "/">>
                              \o urlparse(url).netloc
                              \o <<"/", ".", "j", "s", "o", "n">>
               ELSE /\ ~ firebase_ret.is_open
                    /\ firebase_ret.returl = url

C7_Witness ==
    /\ op = "open_firebase"
    /\ InSeq("[", url)
    /\ calls = <<>>
    /\ firebase_ret.kind = "returned"
    /\ firebase_ret.returl = url
    /\ ~ firebase_ret.is_open

\* C8: a finding without a severity key makes score raise; score never skips
\* it and never returns a result for a mapping that contains one.
C8_MissingSeverityRaises ==
    op = "score" =>
        (("severity" \in lacking
          \/ (n_findings > 0 /\ LacksSeverity(finding)))
            => score_ret.kind = "raised")

C8_Witness ==
    /\ op = "score"
    /\ n_findings >= 2
    /\ "metadata" \in DOMAIN finding
    /\ "severity" \in DOMAIN finding
    /\ LacksSeverity(finding)
    /\ score_ret.kind = "raised"

HandlersRun ==
    CallsOf({"handle_pdf_android", "handle_pdf_ios", "handle_pdf_win"})

\* C9: for a well-formed hash pdf runs the Android handler whenever the
\* Android store has a record, the iOS handler only when Android has none
\* and iOS has one, the Windows handler only when neither has one; no call
\* runs more than one handler.
C9_PlatformPriority ==
    (PdfHasHash /\ IsLowerHex32(PdfHash) /\ env.fail # "exists") =>
        /\ Len(HandlersRun) <= 1
        /\ HasRecord(env.android, PdfHash) =>
              Called("handle_pdf_android")
        /\ (~ HasRecord(env.android, PdfHash) /\ HasRecord(env.ios, PdfHash))
              => Called("handle_pdf_ios")
        /\ (/\ ~ HasRecord(env.android, PdfHash)
            /\ ~ HasRecord(env.ios, PdfHash)
            /\ HasRecord(env.win, PdfHash)) => Called("handle_pdf_win")
        /\ (/\ ~ HasRecord(env.android, PdfHash)
            /\ ~ HasRecord(env.ios, PdfHash)
            /\ ~ HasRecord(env.win, PdfHash)) => HandlersRun = <<>>

C9_Witness ==
    /\ PdfHasHash
    /\ env.fail = "none"
    /\ HasRecord(env.android, PdfHash)
    /\ HasRecord(env.ios, PdfHash)
    /\ HasRecord(env.win, PdfHash)
    /\ Len(HandlersRun) = 1
    /\ Called("handle_pdf_android")

\* The message of the failure the call of pdf ran into, "none" if none.
PdfFailure ==
    IF ~ PdfHasHash THEN "MultiValueDictKeyError"
    ELSE IF env.fail # "none" /\ Called(env.fail) THEN env.fail
    ELSE IF \E i \in 1..Len(calls) :
               /\ calls[i].fn = "score"
               /\ \E j \in 1..Len(calls[i].arg) :
                     LacksSeverity(calls[i].arg[j])
    THEN "KeyError"
    ELSE IF Called("RecentScansDB.objects.get") /\ ~ env.recent
    THEN "DoesNotExist"
    ELSE "none"

\* C10: no exception escapes pdf; a failure of any step is turned into a
\* returned error result that carries the exception's message.
C10_NoExceptionEscapes ==
    op = "pdf" =>
        /\ pdf_ret.kind # "raised"
        /\ PdfFailure # "none" =>
              \/ pdf_ret.kind = "error" /\ pdf_ret.msg = PdfFailure
              \/ /\ pdf_ret.kind \in {"dict", "HttpResponse"}
                 /\ pdf_ret.key \in {"error", "pdf_error"}
                 /\ "err_details" \in DOMAIN pdf_ret
                 /\ pdf_ret.err_details = PdfFailure

C10_Witness ==
    /\ op = "pdf"
    /\ PdfFailure = "KeyError"
    /\ env.fail = "none"
    /\ Called("handle_pdf_android")
    /\ pdf_ret.kind = "error"
    /\ pdf_ret.msg = "KeyError"

====
